---- MODULE Spec2Model ----
(***************************************************************************)
(* Model of the bank statement extractor (src/extract_no_llm.py) and of    *)
(* the scripts decrypt_pdf.py, parse_pdf.py and purge_user_data.py.         *)
(*                                                                         *)
(* Strings are sequences of one-character strings.  An optional value is   *)
(* a sequence of length 0 (None) or 1 (the value).  A call either returns  *)
(* a value or raises a Python exception; both outcomes are kept.           *)
(***************************************************************************)
EXTENDS Integers, Sequences, FiniteSets, TLC

VARIABLES call, pdf, pageIdx, tableIdx, full_text, transactions, pc,
          tmp, job, db, work

vars == <<call, pdf, pageIdx, tableIdx, full_text, transactions, pc, tmp, job, db, work>>

(***************************************************************************)
(* Bounds of the model.                                                    *)
(***************************************************************************)
MaxLen == 3
MaxSegs == 2
MaxRows == 2
MaxPages == 2
MaxTables == 1

(***************************************************************************)
(* Python values.                                                          *)
(***************************************************************************)
Chars(str) == [i \in 1..Len(str) |-> SubSeq(str, i, i)]

None == <<>>

Some(v) == <<v>>

Ok(v) == [exc |-> "none", val |-> v]

Raise(e) == [exc |-> e, val |-> None]

RECURSIVE SeqRange(_)
SeqRange(s) == IF s = <<>> THEN {} ELSE {Head(s)} \cup SeqRange(Tail(s))

RECURSIVE SeqsUpTo(_, _)
SeqsUpTo(S, n) ==
  IF n = 0 THEN {<<>>}
  ELSE LET shorter == SeqsUpTo(S, n - 1)
       IN shorter \cup {Append(s, c) : s \in shorter, c \in S}

UpperChars == Chars("ABCDEFGHIJKLMNOPQRSTUVWXYZ")

LowerChars == Chars("abcdefghijklmnopqrstuvwxyz")

DigitChars == Chars("0123456789")

Letters == SeqRange(UpperChars) \cup SeqRange(LowerChars)

Digits == SeqRange(DigitChars)

Whitespace == {" ", "\n", "\t"}

ToLower == [c \in SeqRange(UpperChars) |-> LowerChars[CHOOSE i \in 1..26 : UpperChars[i] = c]]

ToUpper == [c \in SeqRange(LowerChars) |-> UpperChars[CHOOSE i \in 1..26 : LowerChars[i] = c]]

LowerChar(c) == IF c \in DOMAIN ToLower THEN ToLower[c] ELSE c

UpperChar(c) == IF c \in DOMAIN ToUpper THEN ToUpper[c] ELSE c

\* str.lower()
Lower(s) == [i \in 1..Len(s) |-> LowerChar(s[i])]

\* str.upper()
Upper(s) == [i \in 1..Len(s) |-> UpperChar(s[i])]

\* str.strip()
RECURSIVE LStrip(_)
LStrip(s) == IF s # <<>> /\ Head(s) \in Whitespace THEN LStrip(Tail(s)) ELSE s

RECURSIVE RStrip(_)
RStrip(s) ==
  IF s # <<>> /\ s[Len(s)] \in Whitespace
  THEN RStrip(SubSeq(s, 1, Len(s) - 1))
  ELSE s

Strip(s) == RStrip(LStrip(s))

\* str.replace(c, '')
RECURSIVE RemoveChar(_, _)
RemoveChar(s, c) ==
  IF s = <<>> THEN <<>>
  ELSE IF Head(s) = c THEN RemoveChar(Tail(s), c)
  ELSE <<Head(s)>> \o RemoveChar(Tail(s), c)

\* str.startswith(p)
StartsWith(s, p) == Len(s) >= Len(p) /\ SubSeq(s, 1, Len(p)) = p

\* p in s, for strings
Contains(s, p) ==
  \E i \in 0..(Len(s) - Len(p)) : SubSeq(s, i + 1, i + Len(p)) = p

\* int() of a string of decimal digits
DigitVals == [c \in Digits |-> (CHOOSE i \in 1..10 : DigitChars[i] = c) - 1]

DigitVal(c) == DigitVals[c]

RECURSIVE IntOf(_)
IntOf(s) ==
  IF s = <<>> THEN 0
  ELSE 10 * IntOf(SubSeq(s, 1, Len(s) - 1)) + DigitVal(s[Len(s)])

(***************************************************************************)
(* Regular expressions as re.search and re.match evaluate them: a pattern  *)
(* is a sequence of items, an item being a greedy repetition of a          *)
(* character class or an alternation of sub-patterns tried left to right,  *)
(* with backtracking.  A match is the list of the end offsets of the       *)
(* items.                                                                  *)
(***************************************************************************)
Inf == 1000

Rep(set, lo, hi) == [kind |-> "rep", neg |-> FALSE, set |-> set, min |-> lo, max |-> hi]

NotRep(set, lo, hi) == [kind |-> "rep", neg |-> TRUE, set |-> set, min |-> lo, max |-> hi]

Alt(alts) == [kind |-> "alt", alts |-> alts]

\* a literal under re.IGNORECASE
LitI(str) ==
  [i \in 1..Len(str) |->
     Rep({LowerChar(SubSeq(str, i, i)), UpperChar(SubSeq(str, i, i))}, 1, 1)]

InClass(c, item) == (c \in item.set) # item.neg

RECURSIVE RunLen(_, _, _, _)
RunLen(item, s, pos, cap) ==
  IF cap > 0 /\ pos < Len(s) /\ InClass(s[pos + 1], item)
  THEN 1 + RunLen(item, s, pos + 1, cap - 1)
  ELSE 0

NoMatch == [ok |-> FALSE, start |-> 0, ends |-> <<>>]

RECURSIVE MatchItems(_, _, _, _)
RECURSIVE TryCount(_, _, _, _, _)
RECURSIVE TryAlt(_, _, _, _, _)
MatchItems(items, k, s, pos) ==
  IF k > Len(items) THEN [ok |-> TRUE, start |-> pos, ends |-> <<>>]
  ELSE IF items[k].kind = "rep"
       THEN TryCount(items, k, s, pos, RunLen(items[k], s, pos, items[k].max))
       ELSE TryAlt(items, k, s, pos, 1)

TryCount(items, k, s, pos, c) ==
  IF c < items[k].min THEN NoMatch
  ELSE LET r == MatchItems(items, k + 1, s, pos + c)
       IN IF r.ok
          THEN [ok |-> TRUE, start |-> pos, ends |-> <<pos + c>> \o r.ends]
          ELSE TryCount(items, k, s, pos, c - 1)

TryAlt(items, k, s, pos, a) ==
  IF a > Len(items[k].alts) THEN NoMatch
  ELSE LET alt == items[k].alts[a]
           rest == SubSeq(items, k + 1, Len(items))
           r == MatchItems(alt \o rest, 1, s, pos)
           n == Len(alt)
       IN IF r.ok
          THEN [ok |-> TRUE, start |-> pos,
                ends |-> <<IF n = 0 THEN pos ELSE r.ends[n]>>
                         \o SubSeq(r.ends, n + 1, Len(r.ends))]
          ELSE TryAlt(items, k, s, pos, a + 1)

\* re.match(pattern, s)
ReMatch(items, s) == MatchItems(items, 1, s, 0)

\* re.search(pattern, s)
RECURSIVE SearchFrom(_, _, _)
SearchFrom(items, s, p) ==
  IF p > Len(s) THEN NoMatch
  ELSE LET r == MatchItems(items, 1, s, p)
       IN IF r.ok THEN r ELSE SearchFrom(items, s, p + 1)

ReSearch(items, s) == SearchFrom(items, s, 0)

ItemStart(m, i) == IF i = 1 THEN m.start ELSE m.ends[i - 1]

\* the text matched by items i..j of the pattern
Group(m, s, i, j) == SubSeq(s, ItemStart(m, i) + 1, m.ends[j])

\* match.group()
Group0(m, s) == SubSeq(s, m.start + 1, m.ends[Len(m.ends)])

(***************************************************************************)
(* float(): the strings that reach it here hold digits and at most one     *)
(* '.'; float() raises ValueError when there is no digit.  The value is    *)
(* kept exactly, in units of 1/Scale.                                      *)
(***************************************************************************)
FracDigits == MaxLen

Scale == 10 ^ FracDigits

IntPart(s) ==
  IF "." \in SeqRange(s)
  THEN SubSeq(s, 1, (CHOOSE i \in 1..Len(s) : s[i] = ".") - 1)
  ELSE s

FracPart(s) ==
  IF "." \in SeqRange(s)
  THEN SubSeq(s, (CHOOSE i \in 1..Len(s) : s[i] = ".") + 1, Len(s))
  ELSE <<>>

FloatOk(s) ==
  /\ SeqRange(IntPart(s)) \cup SeqRange(FracPart(s)) \subseteq Digits
  /\ Len(IntPart(s)) + Len(FracPart(s)) > 0

FloatVal(s) ==
  IntOf(IntPart(s)) * Scale
    + IntOf(FracPart(s)) * (10 ^ (FracDigits - Len(FracPart(s))))

\* the numeric run: r'[\d,]+\.?\d*'
NumberPattern ==
  <<Rep(Digits \cup {","}, 1, Inf), Rep({"."}, 0, 1), Rep(Digits, 0, Inf)>>

(***************************************************************************)
(* parse_amount and parse_balance                                          *)
(***************************************************************************)
parse_amount(amount_str) ==
  LET stripped == Strip(amount_str)
      is_debit == StartsWith(stripped, Chars("-")) \/ StartsWith(stripped, Chars("($"))
      nodollar == RemoveChar(stripped, "$")
      match == ReSearch(NumberPattern, nodollar)
      digits == RemoveChar(Group0(match, nodollar), ",")
  IN IF match.ok
     THEN IF FloatOk(digits)
          THEN Ok(<<Some(IF is_debit THEN 0 - FloatVal(digits) ELSE FloatVal(digits)),
                    Some(IF is_debit THEN "debit" ELSE "credit")>>)
          ELSE Raise("ValueError")
     ELSE Ok(<<None, None>>)

parse_balance(balance_str) ==
  LET nodollar == RemoveChar(balance_str, "$")
      match == ReSearch(NumberPattern, nodollar)
      digits == RemoveChar(Group0(match, nodollar), ",")
  IN IF match.ok
     THEN IF FloatOk(digits) THEN Ok(Some(FloatVal(digits))) ELSE Raise("ValueError")
     ELSE Ok(None)

(***************************************************************************)
(* datetime.strptime and strftime for the three formats of normalize_date. *)
(* strptime turns the format into a regular expression (case-insensitive,  *)
(* a blank of the format becoming \s+), matches it at the start of the     *)
(* string, raises ValueError when text remains after the match or when     *)
(* the date does not exist, and otherwise yields year, month and day.      *)
(***************************************************************************)
MonthNames ==
  <<"january", "february", "march", "april", "may", "june", "july",
    "august", "september", "october", "november", "december">>

MonthAbbrs ==
  <<"jan", "feb", "mar", "apr", "may", "jun", "jul", "aug", "sep", "oct",
    "nov", "dec">>

NonZero == Digits \ {"0"}

\* %d: 3[0-1]|[1-2]\d|0[1-9]|[1-9]| [1-9]
DayDirective ==
  Alt(<< <<Rep({"3"}, 1, 1), Rep({"0", "1"}, 1, 1)>>,
         <<Rep({"1", "2"}, 1, 1), Rep(Digits, 1, 1)>>,
         <<Rep({"0"}, 1, 1), Rep(NonZero, 1, 1)>>,
         <<Rep(NonZero, 1, 1)>>,
         <<Rep({" "}, 1, 1), Rep(NonZero, 1, 1)>> >>)

\* %m: 1[0-2]|0[1-9]|[1-9]
MonthDirective ==
  Alt(<< <<Rep({"1"}, 1, 1), Rep({"0", "1", "2"}, 1, 1)>>,
         <<Rep({"0"}, 1, 1), Rep(NonZero, 1, 1)>>,
         <<Rep(NonZero, 1, 1)>> >>)

\* %B and %b: the month names of the C locale
NameDirective(names) == Alt([i \in 1..12 |-> LitI(names[i])])

\* %Y: \d\d\d\d
YearDirective == Rep(Digits, 4, 4)

Blank == Rep(Whitespace, 1, Inf)

\* the regular expressions of '%B %d %Y', '%b %d %Y' and '%m/%d/%Y'
FullNameRegex ==
  <<NameDirective(MonthNames), Blank, DayDirective, Blank, YearDirective>>

AbbrNameRegex ==
  <<NameDirective(MonthAbbrs), Blank, DayDirective, Blank, YearDirective>>

NumericRegex ==
  <<MonthDirective, Rep({"/"}, 1, 1), DayDirective, Rep({"/"}, 1, 1), YearDirective>>

FormatRegex(fmt) ==
  CASE fmt = "%B %d %Y" -> FullNameRegex
    [] fmt = "%b %d %Y" -> AbbrNameRegex
    [] fmt = "%m/%d/%Y" -> NumericRegex

MonthOf(fmt, text) ==
  CASE fmt = "%B %d %Y" -> CHOOSE i \in 1..12 : Chars(MonthNames[i]) = Lower(text)
    [] fmt = "%b %d %Y" -> CHOOSE i \in 1..12 : Chars(MonthAbbrs[i]) = Lower(text)
    [] fmt = "%m/%d/%Y" -> IntOf(text)

IsLeap(y) == (y % 4 = 0) /\ ((y % 100 # 0) \/ (y % 400 = 0))

DaysInMonth(y, m) ==
  IF m = 2 THEN (IF IsLeap(y) THEN 29 ELSE 28)
  ELSE IF m \in {4, 6, 9, 11} THEN 30 ELSE 31

NoDate == [ok |-> FALSE, year |-> 0, month |-> 0, day |-> 0]

strptime(data_string, fmt) ==
  LET found == ReMatch(FormatRegex(fmt), data_string)
      year == IntOf(Group(found, data_string, 5, 5))
      month == MonthOf(fmt, Group(found, data_string, 1, 1))
      day == IntOf(Strip(Group(found, data_string, 3, 3)))
  IN IF ~found.ok THEN NoDate
     ELSE IF found.ends[5] # Len(data_string) THEN NoDate
     ELSE IF year < 1 \/ day > DaysInMonth(year, month) THEN NoDate
     ELSE [ok |-> TRUE, year |-> year, month |-> month, day |-> day]

RECURSIVE Decimal(_)
Decimal(n) ==
  IF n < 10 THEN <<DigitChars[n + 1]>>
  ELSE Decimal(n \div 10) \o <<DigitChars[(n % 10) + 1]>>

TwoDigits(n) == <<DigitChars[(n \div 10) + 1], DigitChars[(n % 10) + 1]>>

\* dt.strftime('%Y-%m-%d')
strftime(dt) ==
  Decimal(dt.year) \o <<"-">> \o TwoDigits(dt.month) \o <<"-">> \o TwoDigits(dt.day)

(***************************************************************************)
(* normalize_date                                                          *)
(***************************************************************************)
DateFormats == <<"%B %d %Y", "%b %d %Y", "%m/%d/%Y">>

RECURSIVE TryFormats(_, _)
TryFormats(date_str, i) ==
  IF i > Len(DateFormats) THEN date_str
  ELSE LET dt == strptime(date_str, DateFormats[i])
       IN IF dt.ok THEN strftime(dt) ELSE TryFormats(date_str, i + 1)

normalize_date(date_str) == TryFormats(RemoveChar(date_str, ","), 1)

(***************************************************************************)
(* The metadata extractors: regular expressions over the full text.        *)
(***************************************************************************)
AnyBlank == Rep(Whitespace, 0, Inf)

\* the first pattern of the list that matches anywhere in the text
RECURSIVE FirstPattern(_, _, _)
FirstPattern(patterns, text, i) ==
  IF i > Len(patterns) THEN 0
  ELSE IF ReSearch(patterns[i], text).ok THEN i
  ELSE FirstPattern(patterns, text, i + 1)

BankPatternsExactCase ==
  LET Exact(str) == [i \in 1..Len(str) |-> Rep({SubSeq(str, i, i)}, 1, 1)]
  IN << <<Alt(<<Exact("CHASE"), Exact("Wells Fargo"), Exact("Bank of America"),
                Exact("Citibank"), Exact("Capital One"), Exact("TD Bank"),
                Exact("PNC")>>)>> >>

BankPatterns ==
  << <<Alt(<<LitI("CHASE"), LitI("Wells Fargo"), LitI("Bank of America"),
             LitI("Citibank"), LitI("Capital One"), LitI("TD Bank"),
             LitI("PNC")>>)>> >>

\* text.split('\n')[0]
RECURSIVE FirstLine(_)
FirstLine(text) ==
  IF text = <<>> \/ Head(text) = "\n" THEN <<>>
  ELSE <<Head(text)>> \o FirstLine(Tail(text))

\* line.split()[0], for a line that does not start with whitespace
RECURSIVE FirstToken(_)
FirstToken(line) ==
  IF line = <<>> \/ Head(line) \in Whitespace THEN <<>>
  ELSE <<Head(line)>> \o FirstToken(Tail(line))

extract_bank_name(text) ==
  LET first_line == Strip(FirstLine(Strip(text)))
      i == FirstPattern(BankPatterns, first_line, 1)
  IN IF i # 0
     THEN Some(Upper(Group(ReSearch(BankPatterns[i], first_line), first_line, 1, 1)))
     ELSE IF first_line # <<>> THEN Some(FirstToken(first_line)) ELSE None

NameClass == Rep(Letters \cup Whitespace, 1, Inf)

HolderPatternsNameFirst ==
  <<LitI("Name:") \o <<AnyBlank, NameClass>>,
    LitI("Account Holder:") \o <<AnyBlank, NameClass>>,
    LitI("Customer:") \o <<AnyBlank, NameClass>> >>

HolderPatterns ==
  <<LitI("Account Holder:") \o <<AnyBlank, NameClass>>,
    LitI("Name:") \o <<AnyBlank, NameClass>>,
    LitI("Customer:") \o <<AnyBlank, NameClass>> >>

extract_account_holder(text) ==
  LET i == FirstPattern(HolderPatterns, text, 1)
      n == Len(HolderPatterns[i])
  IN IF i # 0
     THEN Some(Strip(Group(ReSearch(HolderPatterns[i], text), text, n, n)))
     ELSE None

MaskedNumberOptionalMask == <<Rep({"*"}, 0, Inf), Rep(Digits, 1, Inf)>>

\* (\*+\d+)
MaskedNumber == <<Rep({"*"}, 1, Inf), Rep(Digits, 1, Inf)>>

NumberPatterns ==
  <<LitI("Account Number:") \o <<AnyBlank>> \o MaskedNumber,
    LitI("Account No:") \o <<AnyBlank>> \o MaskedNumber,
    LitI("Acct#") \o <<AnyBlank>> \o MaskedNumber>>

extract_account_number(text) ==
  LET i == FirstPattern(NumberPatterns, text, 1)
      n == Len(NumberPatterns[i])
  IN IF i # 0
     THEN Some(Group(ReSearch(NumberPatterns[i], text), text, n - 1, n))
     ELSE None

EnDash == "endash"

\* [A-Za-z]+\s+\d{1,2},?\s+\d{4}
DatePattern ==
  <<Rep(Letters, 1, Inf), Blank, Rep(Digits, 1, 2), Rep({","}, 0, 1), Blank,
    Rep(Digits, 4, 4)>>

date_range_pattern ==
  DatePattern \o <<AnyBlank, Rep({"-", EnDash}, 1, 1), AnyBlank>> \o DatePattern

\* normalize_date does not raise, so the except branch is never taken
extract_statement_period(text) ==
  LET match == ReSearch(date_range_pattern, text)
  IN IF match.ok
     THEN [from |-> Some(normalize_date(Group(match, text, 1, 6))),
           to |-> Some(normalize_date(Group(match, text, 10, 15)))]
     ELSE [from |-> None, to |-> None]

AmountGroup ==
  <<NotRep({"$"}, 0, Inf), Rep({"$"}, 0, 1), Rep(Digits \cup {","}, 1, Inf),
    Rep({"."}, 0, 1), Rep(Digits, 0, Inf)>>

SummaryPatterns ==
  [opening_balance |-> LitI("Opening Balance") \o AmountGroup,
   closing_balance |-> LitI("Closing Balance") \o AmountGroup,
   total_credits |-> LitI("Total Credits") \o AmountGroup,
   total_debits |-> LitI("Total Debits") \o AmountGroup]

SummaryField(pattern, text) ==
  LET match == ReSearch(pattern, text)
      n == Len(pattern)
      digits == RemoveChar(Group(match, text, n - 2, n), ",")
  IN IF match.ok /\ FloatOk(digits) THEN Some(FloatVal(digits)) ELSE None

extract_summary(text) ==
  [key \in DOMAIN SummaryPatterns |-> SummaryField(SummaryPatterns[key], text)]

(***************************************************************************)
(* parse_transaction_table.  A table is a sequence of rows, a row a        *)
(* sequence of cells, a cell None or a string.  Python indexes from 0; the *)
(* column numbers here are the Python index plus one, 0 meaning that the   *)
(* key is not in col_map.                                                  *)
(***************************************************************************)
\* "cell" used as a condition: None and the empty string are false
Truthy(cell) == cell # None /\ cell # Some(<<>>)

\* str(cell or "")
StrOr(cell) == IF Truthy(cell) THEN cell[1] ELSE <<>>

FieldOfBalanceFirst(h) ==
  IF Contains(h, Chars("balance")) THEN "balance"
  ELSE IF Contains(h, Chars("date")) THEN "date"
  ELSE IF Contains(h, Chars("description")) THEN "description"
  ELSE IF Contains(h, Chars("amount")) THEN "amount"
  ELSE "none"

\* the if/elif chain over a header cell: the first substring found decides
FieldOf(h) ==
  IF Contains(h, Chars("date")) THEN "date"
  ELSE IF Contains(h, Chars("description")) THEN "description"
  ELSE IF Contains(h, Chars("amount")) THEN "amount"
  ELSE IF Contains(h, Chars("balance")) THEN "balance"
  ELSE "none"

\* headers of parse_transaction_table: lower-cased and stripped
ParseHeaders(row) == [i \in 1..Len(row) |-> Strip(Lower(StrOr(row[i])))]

\* col_map: a later column of the same field replaces an earlier one
ColMap(headers) ==
  [f \in {"date", "description", "amount", "balance"} |->
     IF \E i \in 1..Len(headers) : FieldOf(headers[i]) = f
     THEN CHOOSE i \in 1..Len(headers) :
            /\ FieldOf(headers[i]) = f
            /\ \A j \in 1..Len(headers) : FieldOf(headers[j]) = f => j <= i
     ELSE 0]

\* "not row or all(not cell for cell in row)"
SkipRow(row) == \A i \in 1..Len(row) : ~Truthy(row[i])

\* the body of the loop for one row that is not skipped: the fields are read
\* in the order date, description, amount, balance; row[i] raises
\* IndexError past the end of the row, float() raises ValueError
ParseRow(row, col_map) ==
  LET Missing(f) == col_map[f] > Len(row)
      Has(f) == col_map[f] # 0
      Cell(f) == StrOr(row[col_map[f]])
      amount == parse_amount(Cell("amount"))
      balance == parse_balance(Cell("balance"))
  IN IF Has("date") /\ Missing("date") THEN Raise("IndexError")
     ELSE IF Has("description") /\ Missing("description") THEN Raise("IndexError")
     ELSE IF Has("amount") /\ Missing("amount") THEN Raise("IndexError")
     ELSE IF Has("amount") /\ amount.exc # "none" THEN amount
     ELSE IF Has("balance") /\ Missing("balance") THEN Raise("IndexError")
     ELSE IF Has("balance") /\ balance.exc # "none" THEN balance
     ELSE Ok([date |-> IF Has("date") THEN Some(normalize_date(Cell("date"))) ELSE None,
              description |-> IF Has("description")
                              THEN Some(Strip(Cell("description"))) ELSE None,
              amount |-> IF Has("amount") THEN amount.val[1] ELSE None,
              balance |-> IF Has("balance") THEN balance.val ELSE None,
              type |-> IF Has("amount") THEN amount.val[2] ELSE None])

RetainedAlways(trans) == TRUE

\* "if trans['date'] or trans['description']"
Retained(trans) == Truthy(trans.date) \/ Truthy(trans.description)

RECURSIVE ParseRows(_, _, _)
ParseRows(rows, col_map, acc) ==
  IF rows = <<>> THEN Ok(acc)
  ELSE IF SkipRow(Head(rows)) THEN ParseRows(Tail(rows), col_map, acc)
  ELSE LET r == ParseRow(Head(rows), col_map)
       IN IF r.exc # "none" THEN r
          ELSE ParseRows(Tail(rows), col_map,
                         IF Retained(r.val) THEN Append(acc, r.val) ELSE acc)

parse_table_with_header(table) ==
  IF Len(table) < 2 THEN Ok(<<>>)
  ELSE ParseRows(table, ColMap(ParseHeaders(table[1])), <<>>)

parse_transaction_table(table) ==
  IF Len(table) < 2 THEN Ok(<<>>)
  ELSE ParseRows(Tail(table), ColMap(ParseHeaders(table[1])), <<>>)

(***************************************************************************)
(* extract_bank_statement: the test that decides whether a table of a page *)
(* is handed to parse_transaction_table.                                   *)
(***************************************************************************)
\* headers of extract_bank_statement: lower-cased, not stripped
DetectHeaders(row) == [i \in 1..Len(row) |-> Lower(StrOr(row[i]))]

TransactionWords == {Chars(w) : w \in {"date", "description", "amount", "balance"}}

\* any(h in headers for h in [...]): h is an element of the list headers
HasTransactionHeader(headers) ==
  \E h \in TransactionWords : \E i \in 1..Len(headers) : headers[i] = h

LooksLikeTransactionTable(table) ==
  /\ Len(table) > 1
  /\ HasTransactionHeader(DetectHeaders(table[1]))

(***************************************************************************)
(* Inputs                                                                  *)
(***************************************************************************)
AmountAlphabet == {"-", "(", "$", ",", ".", "1", " "}

AmountCells == SeqsUpTo(AmountAlphabet, MaxLen)

\* date strings: a month word, a separator, a day, a separator, a year
DateWords ==
  {Chars(w) : w \in {"January", "feb", "Foo", "Q1", "02", "13"}}

DateSeps == {Chars(w) : w \in {" ", ", ", "/"}}

DateDays == {Chars(w) : w \in {"5", "05", "29", "31", "32"}}

DateYears == {Chars(w) : w \in {"2024", "2023", "24", "2024 "}}

DateStrings ==
  {w \o a \o d \o b \o y :
     w \in DateWords, a \in DateSeps, d \in DateDays, b \in DateSeps, y \in DateYears}

\* table grids: a header row followed by up to MaxRows data rows
Str(w) == Some(Chars(w))

FullHeader == <<Str("Date"), Str("Description"), Str("Amount"), Str("Balance")>>

HeaderRows ==
  {FullHeader,
   <<Str("Date"), Str("Description"), Str("Amount")>>,
   <<Str("Transaction Date"), Str("Details"), Str(" Amount ")>>,
   <<Str("Value date balance"), None, Str("DATE")>>,
   <<None, Str("description")>>,
   <<Str("Ref"), Str("")>>}

FullRow == <<Str("1/5/2024"), Str("Tea"), Str("-$5"), Str("$95.50")>>

DataRows ==
  {FullRow,
   <<Str("Jan 31, 2024"), Str(" Pay "), Str("$1,000.00"), Str("x")>>,
   <<Str(""), Str(""), Str("5"), Str("7")>>,
   <<Str(" "), Str(" "), Str("(n/a)"), None>>,
   <<Str(""), Str("Fee"), Str(","), Str("")>>,
   <<None, Str(""), None, Str("")>>,
   <<Str("1/5/2024"), Str("Tea")>>,
   <<>>}

Tables ==
  {<<>>} \cup {<<h>> \o rows : h \in HeaderRows, rows \in SeqsUpTo(DataRows, MaxRows)}

\* the table grids that the pages of a document are made of; a page names
\* its grids by their position in this list
HeaderOnly == <<FullHeader>>

FirstGrid == <<FullHeader, FullRow>>

SecondGrid ==
  <<<<Str("date"), Str("Info")>>, <<Str("February 2 2024"), Str("Rent")>>, <<Str("x")>> >>

SubstringGrid == <<<<Str("Transaction Date"), Str(" Amount ")>>, <<Str("1/5/2024"), Str("$7")>> >>

RaggedGrid == <<FullHeader, <<Str("1/5/2024"), Str("Tea")>> >>

PageTables == <<HeaderOnly, FirstGrid, SecondGrid, SubstringGrid, RaggedGrid>>

\* extract_text() of a page: a page without tables is blank and has no text
PageText(tables) ==
  IF tables = <<>> THEN None ELSE Str("PNC\nName: Al")

\* documents: up to MaxPages pages, each with up to MaxTables table grids
Pages ==
  {[text |-> PageText(tables), tables |-> tables] :
     tables \in SeqsUpTo(1..Len(PageTables), MaxTables)}

Documents == SeqsUpTo(Pages, MaxPages)

\* texts: up to MaxSegs pieces, one after the other
RECURSIVE Concat(_)
Concat(segs) == IF segs = <<>> THEN <<>> ELSE Head(segs) \o Concat(Tail(segs))

Texts(pieces) == {Concat(segs) : segs \in SeqsUpTo(pieces, MaxSegs)}

NumberPieces ==
  {Chars(w) : w \in {"Account Number: **12", "account no:*3", "Acct#: **45",
                     "Acct# *6", "ACCT#**78", "Account Number: 9", "Account No **1",
                     "\n", "x"}}

HolderPieces ==
  {Chars(w) : w \in {"Account Holder: Al", "name:Bo B", "Customer:  Cy\n",
                     "Account Holder: 12", "Account Holder:3", "Name", "\n",
                     "Account Holder: Jo\n"}}

PeriodDates ==
  {Chars(w) : w \in {"January 1, 2024", "Jan 31 2024", "Foo 1, 2024", "May 32, 2024",
                     "January 2024", "1/5/2024"}}

PeriodSeps == {Chars(" - "), Chars("-"), <<EnDash>>, Chars(" to "), Chars(" ")}

PeriodTexts ==
  {p \o a \o sep \o b \o q :
     p \in {<<>>, Chars("Period: ")}, a \in PeriodDates, sep \in PeriodSeps,
     b \in PeriodDates, q \in {<<>>, Chars("\nx")}}

BankPieces ==
  {Chars(w) : w \in {"Acme Co", "chase", " Wells Fargo\n", "\n", "  ", "my td bank x",
                     "\tPNC", "CitiBank Capital One"}}

SummaryPieces ==
  {Chars(w) : w \in {"Opening Balance $1,000.00", "Opening Balance 1,000.00",
                     "closing balance (Jan 1, 2024) $9,000.5", "Total Credits: $,",
                     "Total Debits $12\n", "Total Credits 3 ", "Closing Balance"}}

(***************************************************************************)
(* The scripts.  A PDF handed to a script is described by what the         *)
(* libraries make of it: its bytes are not base64, or are not a PDF        *)
(* ("garbage"), or are a PDF that is plain or encrypted; for an encrypted  *)
(* one, whether it accepts the password given with it.  The temporary      *)
(* files are named after the place that creates them.                      *)
(***************************************************************************)
PdfFiles ==
  {[kind |-> k, pages |-> 0, accepts |-> FALSE] : k \in {"not_base64", "garbage"}}
    \cup {[kind |-> "plain", pages |-> n, accepts |-> FALSE] : n \in 0..MaxPages}
    \cup {[kind |-> "encrypted", pages |-> n, accepts |-> a] :
            n \in 0..MaxPages, a \in BOOLEAN}

\* str(e) of the exceptions the libraries raise
DecodeError == "Incorrect padding"

DiskError == "[Errno 28] No space left on device"

ReadErrors ==
  {"EOF marker not found", "Cannot read an empty file", "Stream has ended unexpectedly"}

DecryptErrors ==
  {"only Standard PDF encryption handler is available",
   "cryptography>=3.1 is required for AES algorithm"}

\* the result dictionaries of decrypt_pdf and check_if_encrypted
Failure(error, is_encrypted) ==
  [success |-> FALSE, error |-> error, is_encrypted |-> is_encrypted]

Decrypted(file) ==
  [success |-> TRUE, decrypted_base64 |-> [file EXCEPT !.kind = "plain"],
   is_encrypted |-> file.kind = "encrypted", num_pages |-> file.pages]

\* "except Exception as e" of decrypt_pdf, outer handler
DecryptFailed(msg) == Failure("Failed to process PDF: " \o msg, FALSE)

MentionsAlways(msg) == TRUE

\* 'password' in error_msg or 'encrypt' in error_msg or 'decrypt' in error_msg
Mentions(msg) ==
  \E w \in {"password", "encrypt", "decrypt"} : Contains(Lower(Chars(msg)), Chars(w))

\* "except Exception as e" of decrypt_pdf, inner handler: a message about
\* passwords or encryption is reported as a missing password, any other
\* exception is raised again and reaches the outer handler
DecryptCaught(msg) ==
  IF Mentions(msg)
  THEN Failure("This PDF requires a password. Please enter the correct password.", TRUE)
  ELSE DecryptFailed(msg)

\* the documents handed to extract_pdf_content: for each page, what
\* extract_text() gives (it raises, or returns None, '' or a text) and the
\* grids extract_tables() gives
RawGrid == << <<None, Str(" x ")>>, <<Str("7\n")>> >>

ParsePages ==
  {[fails |-> FALSE, text |-> Str(" Hi"), tables |-> <<SubstringGrid>>],
   [fails |-> FALSE, text |-> None, tables |-> <<>>],
   [fails |-> FALSE, text |-> Str(""), tables |-> << <<>>, RawGrid>>],
   [fails |-> TRUE, text |-> None, tables |-> <<RawGrid>>]}

ParseFiles ==
  {[kind |-> k, pages |-> <<>>] : k \in {"not_base64", "garbage"}}
    \cup {[kind |-> "plain", pages |-> doc] : doc \in SeqsUpTo(ParsePages, MaxPages)}

ExtractError == "could not extract text"

\* the cleaned copy of a grid: str(cell).strip() if cell else ""
CleanTable(table) ==
  [r \in 1..Len(table) |-> [c \in 1..Len(table[r]) |-> Strip(StrOr(table[r][c]))]]

\* "if table and len(table) > 0"
KeptTable(table) == table # <<>>

CleanTables(raw_tables) ==
  LET kept == SelectSeq(raw_tables, KeptTable)
  IN [t \in 1..Len(kept) |-> CleanTable(kept[t])]

\* "except Exception as e" of extract_pdf_content
ParseFailed(msg) ==
  [success |-> FALSE, error |-> "Failed to extract PDF content: " \o msg]

\* "except Exception as e" of check_if_encrypted
CheckFailed(msg) == Failure(msg, FALSE)

\* purge_user_data.py.  A database file is the number of rows of each of its
\* tables; a path without a file is None.
DbPaths == <<"db/custom.db", "prisma/db/custom.db">>

user_tables_and_templates ==
  <<"GroupedStatement", "StatementGroup", "Transaction", "BankStatement", "BankTemplate">>

user_tables == <<"GroupedStatement", "StatementGroup", "Transaction", "BankStatement">>

DbFiles ==
  {None,
   Some([t \in {"GroupedStatement", "StatementGroup", "Transaction", "BankStatement",
                "BankTemplate", "User"} |-> IF t \in {"StatementGroup", "BankTemplate"} THEN 2 ELSE 1]),
   Some([t \in {"Transaction", "BankTemplate"} |-> 1]),
   Some([t \in {"BankTemplate", "User"} |-> 2]),
   Some([t \in {"BankStatement", "User"} |-> IF t = "User" THEN 1 ELSE 0])}

Databases == [{DbPaths[1], DbPaths[2]} -> DbFiles]

(***************************************************************************)
(* The state machine: each action is one call of a function of the         *)
(* module on an input.                                                     *)
(***************************************************************************)
\* before the purge script is run the model holds no database file
NoDatabases == [path \in {DbPaths[1], DbPaths[2]} |-> None]

Idle == [fn |-> "none", arg |-> None, ret |-> Ok(None)]

Init ==
  /\ call = Idle
  /\ pdf = <<>>
  /\ pageIdx = 0
  /\ tableIdx = 0
  /\ full_text = <<>>
  /\ transactions = <<>>
  /\ pc = "idle"
  /\ tmp = {}
  /\ job = None
  /\ db = NoDatabases
  /\ work = None

Loop == <<pdf, pageIdx, tableIdx, full_text, transactions>>

\* the state of the scripts: the temporary files on disk, the running script's
\* local state, the database files and the open connection
Scripts == <<tmp, job, db, work>>

\* a call of one of the functions on its own: it returns or raises at once
ParseAmount ==
  /\ pc = "idle"
  /\ \E s \in AmountCells :
       call' = [fn |-> "parse_amount", arg |-> s, ret |-> parse_amount(s)]
  /\ pc' = "returned"
  /\ UNCHANGED <<Loop, Scripts>>

ParseBalance ==
  /\ pc = "idle"
  /\ \E s \in AmountCells :
       call' = [fn |-> "parse_balance", arg |-> s, ret |-> parse_balance(s)]
  /\ pc' = "returned"
  /\ UNCHANGED <<Loop, Scripts>>

NormalizeDate ==
  /\ pc = "idle"
  /\ \E s \in DateStrings :
       call' = [fn |-> "normalize_date", arg |-> s, ret |-> Ok(normalize_date(s))]
  /\ pc' = "returned"
  /\ UNCHANGED <<Loop, Scripts>>

ParseTransactionTable ==
  /\ pc = "idle"
  /\ \E t \in Tables :
       call' = [fn |-> "parse_transaction_table", arg |-> t,
                ret |-> parse_transaction_table(t)]
  /\ pc' = "returned"
  /\ UNCHANGED <<Loop, Scripts>>

ExtractAccountHolder ==
  /\ pc = "idle"
  /\ \E t \in Texts(HolderPieces) :
       call' = [fn |-> "extract_account_holder", arg |-> t,
                ret |-> Ok(extract_account_holder(t))]
  /\ pc' = "returned"
  /\ UNCHANGED <<Loop, Scripts>>

ExtractAccountNumber ==
  /\ pc = "idle"
  /\ \E t \in Texts(NumberPieces) :
       call' = [fn |-> "extract_account_number", arg |-> t,
                ret |-> Ok(extract_account_number(t))]
  /\ pc' = "returned"
  /\ UNCHANGED <<Loop, Scripts>>

ExtractStatementPeriod ==
  /\ pc = "idle"
  /\ \E t \in PeriodTexts :
       call' = [fn |-> "extract_statement_period", arg |-> t,
                ret |-> Ok(extract_statement_period(t))]
  /\ pc' = "returned"
  /\ UNCHANGED <<Loop, Scripts>>

ExtractBankName ==
  /\ pc = "idle"
  /\ \E t \in Texts(BankPieces) :
       call' = [fn |-> "extract_bank_name", arg |-> t,
                ret |-> Ok(extract_bank_name(t))]
  /\ pc' = "returned"
  /\ UNCHANGED <<Loop, Scripts>>

ExtractSummary ==
  /\ pc = "idle"
  /\ \E t \in Texts(SummaryPieces) :
       call' = [fn |-> "extract_summary", arg |-> t, ret |-> Ok(extract_summary(t))]
  /\ pc' = "returned"
  /\ UNCHANGED <<Loop, Scripts>>

\* the result of parse_transaction_table for each grid of PageTables, and
\* whether the grid passes the test of extract_bank_statement
ParsedTables == [g \in 1..Len(PageTables) |-> parse_transaction_table(PageTables[g])]

TransactionTables == {g \in 1..Len(PageTables) : LooksLikeTransactionTable(PageTables[g])}

\* extract_bank_statement, one step of its loops at a time.
\* "with pdfplumber.open(pdf_path) as pdf": the document is opened
Open ==
  /\ pc = "idle"
  /\ \E doc \in Documents : pdf' = doc
  /\ pageIdx' = 1
  /\ tableIdx' = 0
  /\ full_text' = <<>>
  /\ transactions' = <<>>
  /\ pc' = "page"
  /\ UNCHANGED <<call, Scripts>>

\* "for page in pdf.pages": the text of the next page is appended
NextPage ==
  /\ pc = "page"
  /\ pageIdx <= Len(pdf)
  /\ full_text' = full_text \o StrOr(pdf[pageIdx].text) \o <<"\n">>
  /\ tableIdx' = 1
  /\ pc' = "table"
  /\ UNCHANGED <<call, pdf, pageIdx, transactions, Scripts>>

NextTableKeepFirst ==
  /\ pc = "table"
  /\ tableIdx <= Len(pdf[pageIdx].tables)
  /\ LET table == pdf[pageIdx].tables[tableIdx]
         parsed == ParsedTables[table]
     IN IF table \notin TransactionTables \/ transactions # <<>>
        THEN /\ tableIdx' = tableIdx + 1
             /\ UNCHANGED <<call, transactions, pc>>
        ELSE IF parsed.exc = "none"
        THEN /\ transactions' = parsed.val
             /\ tableIdx' = tableIdx + 1
             /\ UNCHANGED <<call, pc>>
        ELSE /\ call' = [fn |-> "extract_bank_statement", arg |-> pdf, ret |-> parsed]
             /\ pc' = "returned"
             /\ UNCHANGED <<transactions, tableIdx>>
  /\ UNCHANGED <<pdf, pageIdx, full_text, Scripts>>

\* "for table in tables": the next table of the page is examined, and parsed
\* when it looks like a transaction table
NextTable ==
  /\ pc = "table"
  /\ tableIdx <= Len(pdf[pageIdx].tables)
  /\ LET table == pdf[pageIdx].tables[tableIdx]
         parsed == ParsedTables[table]
     IN IF table \notin TransactionTables
        THEN /\ tableIdx' = tableIdx + 1
             /\ UNCHANGED <<call, transactions, pc>>
        ELSE IF parsed.exc = "none"
        THEN /\ transactions' = parsed.val
             /\ tableIdx' = tableIdx + 1
             /\ UNCHANGED <<call, pc>>
        ELSE /\ call' = [fn |-> "extract_bank_statement", arg |-> pdf, ret |-> parsed]
             /\ pc' = "returned"
             /\ UNCHANGED <<transactions, tableIdx>>
  /\ UNCHANGED <<pdf, pageIdx, full_text, Scripts>>

\* the tables of the page are exhausted
EndPage ==
  /\ pc = "table"
  /\ tableIdx > Len(pdf[pageIdx].tables)
  /\ pageIdx' = pageIdx + 1
  /\ pc' = "page"
  /\ UNCHANGED <<call, pdf, tableIdx, full_text, transactions, Scripts>>

\* after the last page: the metadata is extracted from the full text and
\* the record is returned
ExtractMetadata ==
  /\ pc = "page"
  /\ pageIdx > Len(pdf)
  /\ call' = [fn |-> "extract_bank_statement", arg |-> pdf,
              ret |-> Ok([bank_name |-> extract_bank_name(full_text),
                          account_holder |-> extract_account_holder(full_text),
                          account_number |-> extract_account_number(full_text),
                          statement_period |-> extract_statement_period(full_text),
                          summary |-> extract_summary(full_text),
                          transactions |-> transactions])]
  /\ pc' = "returned"
  /\ UNCHANGED <<Loop, Scripts>>

\* decrypt_pdf returns to its caller
DecryptReturn(file, result) ==
  /\ call' = [fn |-> "decrypt_pdf", arg |-> file, ret |-> Ok(result)]
  /\ pc' = "returned"

\* decrypt_pdf: the base64 text is decoded and written to a temporary file
\* that is kept when it is closed (delete=False)
DecryptStart ==
  /\ pc = "idle"
  /\ \E file \in PdfFiles, written \in BOOLEAN :
       IF file.kind = "not_base64"
       THEN /\ DecryptReturn(file, DecryptFailed(DecodeError))
            /\ UNCHANGED <<tmp, job>>
       ELSE /\ tmp' = tmp \cup {"decrypt_input"}
            /\ IF written
               THEN /\ job' = Some([file |-> file, verdict |-> "none"])
                    /\ pc' = "decrypt_read"
                    /\ UNCHANGED call
               ELSE /\ DecryptReturn(file, DecryptFailed(DiskError))
                    /\ UNCHANGED job
  /\ UNCHANGED <<Loop, db, work>>

\* the file is read; an encrypted document is decrypted with the password.
\* job.verdict keeps what reader.decrypt(password) answered.
DecryptRead ==
  /\ pc = "decrypt_read"
  /\ LET file == job[1].file
         Verdict(v) == job' = Some([file |-> file, verdict |-> v])
     IN CASE file.kind = "garbage" ->
               /\ \E msg \in ReadErrors : DecryptReturn(file, DecryptCaught(msg))
               /\ UNCHANGED job
          [] file.kind = "plain" ->
               /\ pc' = "decrypt_write"
               /\ UNCHANGED <<call, job>>
          [] file.kind = "encrypted" ->
               \/ /\ \E msg \in DecryptErrors : DecryptReturn(file, DecryptCaught(msg))
                  /\ UNCHANGED job
               \/ /\ file.accepts
                  /\ Verdict("accepted")
                  /\ pc' = "decrypt_write"
                  /\ UNCHANGED call
               \/ /\ ~file.accepts
                  /\ Verdict("rejected")
                  /\ DecryptReturn(file,
                       Failure("Incorrect password. Please check and try again.", TRUE))
  /\ UNCHANGED <<Loop, tmp, db, work>>

\* the pages are copied to a writer, which is written to a second temporary
\* file and read back
DecryptWrite ==
  /\ pc = "decrypt_write"
  /\ tmp' = tmp \cup {"decrypt_output"}
  /\ \E written \in BOOLEAN :
       IF written
       THEN pc' = "decrypt_cleanup" /\ UNCHANGED call
       ELSE DecryptReturn(job[1].file, DecryptCaught(DiskError))
  /\ UNCHANGED <<Loop, job, db, work>>

\* "Clean up temp files", and the success result
DecryptCleanup ==
  /\ pc = "decrypt_cleanup"
  /\ tmp' = tmp \ {"decrypt_input", "decrypt_output"}
  /\ DecryptReturn(job[1].file, Decrypted(job[1].file))
  /\ UNCHANGED <<Loop, job, db, work>>

\* check_if_encrypted returns to its caller
CheckReturn(file, result) ==
  /\ call' = [fn |-> "check_if_encrypted", arg |-> file, ret |-> Ok(result)]
  /\ pc' = "returned"

\* check_if_encrypted: the base64 text is decoded and written to a
\* temporary file
CheckStart ==
  /\ pc = "idle"
  /\ \E file \in PdfFiles, written \in BOOLEAN :
       IF file.kind = "not_base64"
       THEN /\ CheckReturn(file, CheckFailed(DecodeError))
            /\ UNCHANGED <<tmp, job>>
       ELSE /\ tmp' = tmp \cup {"check_input"}
            /\ IF written
               THEN /\ job' = Some([file |-> file, verdict |-> "none"])
                    /\ pc' = "check_read"
                    /\ UNCHANGED call
               ELSE /\ CheckReturn(file, CheckFailed(DiskError))
                    /\ UNCHANGED job
  /\ UNCHANGED <<Loop, db, work>>

\* the file is read inside try/finally: the temporary file is unlinked
\* whether the reader raises or not
CheckRead ==
  /\ pc = "check_read"
  /\ LET file == job[1].file
     IN IF file.kind = "garbage"
        THEN \E msg \in ReadErrors : CheckReturn(file, CheckFailed(msg))
        ELSE CheckReturn(file,
               [success |-> TRUE, is_encrypted |-> file.kind = "encrypted",
                num_pages |-> IF file.kind = "encrypted" THEN None ELSE Some(file.pages)])
  /\ tmp' = tmp \ {"check_input"}
  /\ UNCHANGED <<Loop, job, db, work>>

\* extract_pdf_content returns to its caller
ParseReturn(file, result) ==
  /\ call' = [fn |-> "extract_pdf_content", arg |-> file, ret |-> Ok(result)]
  /\ pc' = "returned"

\* extract_pdf_content: the base64 text is decoded and written to a
\* temporary file
ParseStart ==
  /\ pc = "idle"
  /\ \E file \in ParseFiles, written \in BOOLEAN :
       IF file.kind = "not_base64"
       THEN /\ ParseReturn(file, ParseFailed(DecodeError))
            /\ UNCHANGED <<tmp, job>>
       ELSE /\ tmp' = tmp \cup {"parse_input"}
            /\ IF written
               THEN /\ job' = Some([file |-> file, page_num |-> 0,
                                    full_text |-> <<>>, pages |-> <<>>])
                    /\ pc' = "parse_open"
                    /\ UNCHANGED call
               ELSE /\ ParseReturn(file, ParseFailed(DiskError))
                    /\ UNCHANGED job
  /\ UNCHANGED <<Loop, db, work>>

\* "with pdfplumber.open(tmp_path) as pdf", inside try/finally
ParseOpen ==
  /\ pc = "parse_open"
  /\ IF job[1].file.kind = "garbage"
     THEN /\ \E msg \in ReadErrors : ParseReturn(job[1].file, ParseFailed(msg))
          /\ tmp' = tmp \ {"parse_input"}
     ELSE /\ pc' = "parse_page"
          /\ UNCHANGED <<call, tmp>>
  /\ UNCHANGED <<Loop, job, db, work>>

\* "for page_num, page in enumerate(pdf.pages)": one page.  An exception of
\* extract_text() leaves the loop through finally and the outer handler.
ParsePage ==
  /\ pc = "parse_page"
  /\ job[1].page_num < Len(job[1].file.pages)
  /\ LET page == job[1].file.pages[job[1].page_num + 1]
         page_text == StrOr(page.text)
     IN IF page.fails
        THEN /\ ParseReturn(job[1].file, ParseFailed(ExtractError))
             /\ tmp' = tmp \ {"parse_input"}
             /\ UNCHANGED job
        ELSE /\ job' = Some([job[1] EXCEPT
                         !.page_num = @ + 1,
                         !.full_text = @ \o page_text \o <<"\n">>,
                         !.pages = Append(@, [pageNumber |-> job[1].page_num + 1,
                                              text |-> page_text,
                                              tables |-> CleanTables(page.tables)])])
             /\ UNCHANGED <<call, pc, tmp>>
  /\ UNCHANGED <<Loop, db, work>>

\* after the last page: the success result; finally unlinks the file
ParseDone ==
  /\ pc = "parse_page"
  /\ job[1].page_num = Len(job[1].file.pages)
  /\ ParseReturn(job[1].file,
       [success |-> TRUE, fullText |-> Strip(job[1].full_text),
        pages |-> job[1].pages, pageCount |-> Len(job[1].file.pages)])
  /\ tmp' = tmp \ {"parse_input"}
  /\ UNCHANGED <<Loop, job, db, work>>

\* purge_user_data.py is started: the database files are as the disk has
\* them; job keeps them as they were, the path and the table of the loops
PurgeStart ==
  /\ pc = "idle"
  /\ \E files \in Databases :
       /\ db' = files
       /\ job' = Some([before |-> files, path |-> 1, table |-> 1])
  /\ pc' = "purge_path"
  /\ UNCHANGED <<Loop, call, tmp, work>>

\* "for path in [db_path, prisma_db_path]": a path that does not exist is
\* skipped, an existing file is opened
PurgePath ==
  /\ pc = "purge_path"
  /\ job[1].path <= Len(DbPaths)
  /\ IF db[DbPaths[job[1].path]] = None
     THEN /\ job' = Some([job[1] EXCEPT !.path = @ + 1])
          /\ UNCHANGED <<work, pc>>
     ELSE /\ work' = db[DbPaths[job[1].path]]
          /\ job' = Some([job[1] EXCEPT !.table = 1])
          /\ pc' = "purge_table"
  /\ UNCHANGED <<Loop, call, tmp, db>>

\* "for table in user_tables": the rows of a table that is present are
\* deleted inside the connection's transaction.  A DELETE that fails raises
\* out of the script: the connection is closed without a commit.
PurgeTable ==
  /\ pc = "purge_table"
  /\ job[1].table <= Len(user_tables)
  /\ LET table == user_tables[job[1].table]
     IN IF table \in DOMAIN work[1]
        THEN \E deleted \in BOOLEAN :
               IF deleted
               THEN /\ work' = Some([work[1] EXCEPT ![table] = 0])
                    /\ job' = Some([job[1] EXCEPT !.table = @ + 1])
                    /\ UNCHANGED <<call, pc>>
               ELSE /\ work' = None
                    /\ call' = [fn |-> "purge_user_data", arg |-> job[1].before,
                                ret |-> Raise("OperationalError")]
                    /\ pc' = "returned"
                    /\ UNCHANGED job
        ELSE /\ job' = Some([job[1] EXCEPT !.table = @ + 1])
             /\ UNCHANGED <<call, work, pc>>
  /\ UNCHANGED <<Loop, tmp, db>>

\* conn.commit() and conn.close()
PurgeCommit ==
  /\ pc = "purge_table"
  /\ job[1].table > Len(user_tables)
  /\ db' = [db EXCEPT ![DbPaths[job[1].path]] = work]
  /\ work' = None
  /\ job' = Some([job[1] EXCEPT !.path = @ + 1])
  /\ pc' = "purge_path"
  /\ UNCHANGED <<Loop, call, tmp>>

\* both paths are done: the script ends
PurgeDone ==
  /\ pc = "purge_path"
  /\ job[1].path > Len(DbPaths)
  /\ call' = [fn |-> "purge_user_data", arg |-> job[1].before, ret |-> Ok(None)]
  /\ pc' = "returned"
  /\ UNCHANGED <<Loop, tmp, job, db, work>>

Next ==
  \/ ParseAmount
  \/ ParseBalance
  \/ NormalizeDate
  \/ ParseTransactionTable
  \/ ExtractAccountHolder
  \/ ExtractAccountNumber
  \/ ExtractStatementPeriod
  \/ ExtractBankName
  \/ ExtractSummary
  \/ Open
  \/ NextPage
  \/ NextTable
  \/ EndPage
  \/ ExtractMetadata
  \/ DecryptStart
  \/ DecryptRead
  \/ DecryptWrite
  \/ DecryptCleanup
  \/ CheckStart
  \/ CheckRead
  \/ ParseStart
  \/ ParseOpen
  \/ ParsePage
  \/ ParseDone
  \/ PurgeStart
  \/ PurgePath
  \/ PurgeTable
  \/ PurgeCommit
  \/ PurgeDone

Spec == Init /\ [][Next]_vars

(***************************************************************************)
(* Properties.                                                             *)
(***************************************************************************)
Returned(fn) == pc = "returned" /\ call.fn = fn

ReturnedOk(fn) == Returned(fn) /\ call.ret.exc = "none"

HasDigit(s) == \E i \in 1..Len(s) : s[i] \in Digits

\* a canonical Year-Month-Day string of an existing date
IsIsoDate(s) ==
  /\ Len(s) = 10
  /\ s[5] = "-" /\ s[8] = "-"
  /\ \A i \in {1, 2, 3, 4, 6, 7, 9, 10} : s[i] \in Digits
  /\ IntOf(SubSeq(s, 1, 4)) >= 1
  /\ IntOf(SubSeq(s, 6, 7)) \in 1..12
  /\ IntOf(SubSeq(s, 9, 10)) \in
       1..DaysInMonth(IntOf(SubSeq(s, 1, 4)), IntOf(SubSeq(s, 6, 7)))

\* the table grids of a document in page-then-table order
RECURSIVE AllGrids(_)
AllGrids(doc) ==
  IF doc = <<>> THEN <<>> ELSE Head(doc).tables \o AllGrids(Tail(doc))

Qualifies(g) == LooksLikeTransactionTable(PageTables[g])

QualifyingGrids(doc) == SelectSeq(AllGrids(doc), Qualifies)

ParsedRows(g) == ParsedTables[g].val

Last(seq) == seq[Len(seq)]

HasShortRow(table) ==
  /\ Len(table) >= 2
  /\ \E r \in 2..Len(table) :
       /\ ~SkipRow(table[r])
       /\ \E f \in {"date", "description", "amount", "balance"} :
            ColMap(ParseHeaders(table[1]))[f] > Len(table[r])

\* C2: parse_transaction_table returns normally for a table grid with a
\* data row that has fewer cells than a mapped column.
C2_ShortRowDoesNotRaise ==
  (Returned("parse_transaction_table") /\ HasShortRow(call.arg))
    => call.ret.exc = "none"

\* C3: for an amount cell without a digit parse_amount returns absent amount
\* and absent kind without raising; for a balance cell without a digit
\* parse_balance returns absent without raising.
C3_NoDigitIsAbsent ==
  /\ (Returned("parse_amount") /\ ~HasDigit(call.arg))
       => call.ret = Ok(<<None, None>>)
  /\ (Returned("parse_balance") /\ ~HasDigit(call.arg))
       => call.ret = Ok(None)

\* a header cell that contains one of the four words as a substring
HasTransactionSubstring(table) ==
  /\ Len(table) > 1
  /\ \E i \in 1..Len(table[1]) : \E w \in TransactionWords :
       Contains(Lower(StrOr(table[1][i])), w)

\* C4: a grid with a header row and a data row is treated as a transaction
\* table whenever a lower-cased header cell contains 'date', 'description',
\* 'amount' or 'balance' as a substring, its rows becoming the transactions;
\* any other grid leaves the transactions alone.
C4_SubstringHeaderQualifies ==
  [][(pc = "table" /\ tableIdx <= Len(pdf[pageIdx].tables))
       => LET table == PageTables[pdf[pageIdx].tables[tableIdx]]
              parsed == parse_transaction_table(table)
          IN IF HasTransactionSubstring(table)
             THEN parsed.exc = "none" => transactions' = parsed.val
             ELSE transactions' = transactions]_vars

\* the columns of a row whose header names the date or the description
KeyCells(header, row) ==
  {i \in 1..Len(row) :
     /\ i <= Len(header)
     /\ FieldOf(Strip(Lower(StrOr(header[i])))) \in {"date", "description"}}

\* the data rows that have something in a date or description column
RECURSIVE KeyedRows(_, _)
KeyedRows(header, rows) ==
  IF rows = <<>> THEN 0
  ELSE (IF \E i \in KeyCells(header, Head(rows)) : Truthy(Head(rows)[i])
        THEN 1 ELSE 0) + KeyedRows(header, Tail(rows))

NonEmpty(field) == field # None /\ field[1] # <<>>

EveryTransactionKeyed(trans) ==
  \A i \in 1..Len(trans) : NonEmpty(trans[i].date) \/ NonEmpty(trans[i].description)

\* C5: every transaction of a result has a non-empty date or a non-empty
\* description, and a data row whose date and description cells are empty,
\* absent or unmapped yields no transaction, whatever its other cells hold.
C5_TransactionsHaveDateOrDescription ==
  /\ ReturnedOk("parse_transaction_table")
       => /\ EveryTransactionKeyed(call.ret.val)
          /\ Len(call.arg) >= 2
               => Len(call.ret.val) <= KeyedRows(call.arg[1], Tail(call.arg))
  /\ ReturnedOk("extract_bank_statement")
       => EveryTransactionKeyed(call.ret.val.transactions)

C5_RowWithOnlyAmountDropped ==
  /\ ReturnedOk("parse_transaction_table")
  /\ Len(call.arg) = 3
  /\ \E r \in 2..3 :
       /\ ~SkipRow(call.arg[r])
       /\ ~\E i \in KeyCells(call.arg[1], call.arg[r]) : Truthy(call.arg[r][i])
  /\ Len(call.ret.val) = 1

\* the first numeric run of a string: the digits and commas from the first
\* digit or comma on, a '.' after them, and the digits after that
RunStart(s) == CHOOSE i \in 1..Len(s) :
  /\ s[i] \in Digits \cup {","}
  /\ \A j \in 1..(i - 1) : s[j] \notin Digits \cup {","}

RunEnd(s, from, set) == CHOOSE j \in (from - 1)..Len(s) :
  /\ \A k \in from..j : s[k] \in set
  /\ j < Len(s) => s[j + 1] \notin set

FirstRun(s) ==
  LET a == RunStart(s)
      b == RunEnd(s, a, Digits \cup {","})
      c == IF b < Len(s) /\ s[b + 1] = "." THEN b + 1 ELSE b
      d == RunEnd(s, c + 1, Digits)
  IN SubSeq(s, a, d)

Magnitude(cell) == FloatVal(RemoveChar(FirstRun(RemoveChar(Strip(cell), "$")), ","))

MarkedDebit(cell) ==
  StartsWith(Strip(cell), Chars("-")) \/ StartsWith(Strip(cell), Chars("($"))

\* C6: for an amount cell that holds a number, the kind is 'debit' exactly
\* when the trimmed cell starts with '-' or '($' and 'credit' otherwise, and
\* the amount is minus the magnitude for a debit and the magnitude for a
\* credit.
C6_KindAndSignOfAmount ==
  (Returned("parse_amount") /\ HasDigit(call.arg))
    => /\ call.ret.exc = "none"
       /\ call.ret.val[2] = Some(IF MarkedDebit(call.arg) THEN "debit" ELSE "credit")
       /\ call.ret.val[1] = Some(IF MarkedDebit(call.arg)
                                 THEN 0 - Magnitude(call.arg)
                                 ELSE Magnitude(call.arg))

ParsesAsDate(s) == \E i \in 1..Len(DateFormats) : strptime(s, DateFormats[i]).ok

\* C7: normalize_date returns the Year-Month-Day form when the input parses
\* under one of the three formats, and returns the input unchanged,
\* character for character, when it parses under none.
C7_UnparsedDateUnchanged ==
  Returned("normalize_date")
    => IF ParsesAsDate(RemoveChar(call.arg, ","))
       THEN IsIsoDate(call.ret.val)
       ELSE call.ret.val = call.arg

IsoOrAbsent(field) == field = None \/ IsIsoDate(field[1])

\* C8: each endpoint of the statement period is absent or a canonical
\* Year-Month-Day date, and 'from' is absent exactly when 'to' is.
C8_PeriodIsDateOrAbsent ==
  Returned("extract_statement_period")
    => /\ IsoOrAbsent(call.ret.val.from)
       /\ IsoOrAbsent(call.ret.val.to)
       /\ (call.ret.val.from = None) <=> (call.ret.val.to = None)

\* offset i of the text is followed by the label, in any letter case
LabelAt(text, i, label) ==
  /\ i + Len(label) <= Len(text)
  /\ Lower(SubSeq(text, i + 1, i + Len(label))) = Lower(label)

Least(S) == CHOOSE i \in S : \A j \in S : i <= j

\* the masked number that follows the label at offset i: blanks, one or more
\* '*', one or more digits
MaskStart(text, i, label) == RunEnd(text, i + Len(label) + 1, Whitespace) + 1

MaskEnd(text, i, label) ==
  RunEnd(text, RunEnd(text, MaskStart(text, i, label), {"*"}) + 1, Digits)

MaskedAt(text, i, label) ==
  /\ LabelAt(text, i, label)
  /\ RunEnd(text, MaskStart(text, i, label), {"*"}) >= MaskStart(text, i, label)
  /\ MaskEnd(text, i, label) > RunEnd(text, MaskStart(text, i, label), {"*"})

MaskedOffsets(text, label) == {i \in 0..Len(text) : MaskedAt(text, i, label)}

\* the account number the label forms give: the mask and digits after the
\* first occurrence of the first form, in priority order, that occurs
NumberByForms(text, labels) ==
  LET found == {k \in 1..Len(labels) : MaskedOffsets(text, labels[k]) # {}}
      label == labels[Least(found)]
      i == Least(MaskedOffsets(text, label))
  IN IF found = {} THEN None
     ELSE Some(SubSeq(text, MaskStart(text, i, label), MaskEnd(text, i, label)))

\* C9 (as stated): the account number is found for the three label forms
\* 'Account Number:', 'Account No:' and 'Acct#:', tried in that order
\* whatever their position, and is absent when none of them occurs.
C9_ThreeFormsWithColon ==
  Returned("extract_account_number")
    => call.ret.val
         = NumberByForms(call.arg,
             <<Chars("Account Number:"), Chars("Account No:"), Chars("Acct#:")>>)

\* C9 (amended): the three label forms are 'Account Number:', 'Account No:'
\* and 'Acct#' without a colon (label, optional whitespace, one or more '*',
\* one or more digits), case-insensitively; they are tried in that order
\* whatever their position, the result is the mask and digits verbatim, and
\* the field is absent when none of the three occurs.
C9_ThirdFormWithoutColon ==
  Returned("extract_account_number")
    => call.ret.val
         = NumberByForms(call.arg,
             <<Chars("Account Number:"), Chars("Account No:"), Chars("Acct#")>>)

C9_LaterFormOfHigherPriority ==
  /\ Returned("extract_account_number")
  /\ call.arg = Chars("Acct# *6") \o Chars("account no:*3")
  /\ call.ret.val = Some(Chars("*3"))

\* the name that follows the label at offset i: a letter or a blank comes
\* right after the label, and the name is the run of letters and blanks
NamedAt(text, i, label) ==
  /\ LabelAt(text, i, label)
  /\ i + Len(label) < Len(text)
  /\ text[i + Len(label) + 1] \in Letters \cup Whitespace

NamedOffsets(text, label) == {i \in 0..Len(text) : NamedAt(text, i, label)}

HolderByLabels(text, labels) ==
  LET found == {k \in 1..Len(labels) : NamedOffsets(text, labels[k]) # {}}
      label == labels[Least(found)]
      i == Least(NamedOffsets(text, label))
      from == i + Len(label) + 1
  IN IF found = {} THEN None
     ELSE Some(Strip(SubSeq(text, from, RunEnd(text, from, Letters \cup Whitespace))))

\* C10: the labels 'Account Holder:', 'Name:', 'Customer:' are tried in that
\* order over the whole text, a label of higher priority winning wherever it
\* stands; the value has no leading or trailing whitespace and holds only
\* letters and whitespace; the field is absent when no label matches.
C10_HolderLabelPriority ==
  Returned("extract_account_holder")
    => /\ call.ret.val
            = HolderByLabels(call.arg,
                <<Chars("Account Holder:"), Chars("Name:"), Chars("Customer:")>>)
       /\ call.ret.val # None
            => /\ SeqRange(call.ret.val[1]) \subseteq Letters \cup Whitespace
               /\ Strip(call.ret.val[1]) = call.ret.val[1]

C10_LowerPriorityLabelFirst ==
  /\ Returned("extract_account_holder")
  /\ call.arg = Chars("name:Bo B") \o Chars("Account Holder: Al")
  /\ call.ret.val = Some(Chars("Al"))

\* the line 'Account Holder: <name>' of the text: the first place where the
\* label and a blank stand, the run of letters and spaces after it, which
\* starts and ends with a letter, and the line break that ends it
HolderLabel == Chars("Account Holder: ")

HolderLineOffsets(text) == {i \in 0..Len(text) : LabelAt(text, i, HolderLabel)}

NameOnLine(text) ==
  LET from == Least(HolderLineOffsets(text)) + Len(HolderLabel) + 1
  IN SubSeq(text, from, RunEnd(text, from, Letters \cup {" "}))

HasHolderLine(text) ==
  /\ HolderLineOffsets(text) # {}
  /\ LET from == Least(HolderLineOffsets(text)) + Len(HolderLabel) + 1
         to == RunEnd(text, from, Letters \cup {" "})
     IN /\ to >= from
        /\ to < Len(text)
        /\ text[to + 1] = "\n"
        /\ text[from] \in Letters
        /\ text[to] \in Letters

\* C11: when 'Account Holder: ' is followed by a name of letters and spaces
\* and a line break, the account holder is exactly that name whatever the
\* later lines hold; a present account holder has no line break in it and is
\* not the empty string.
C11_HolderIsNameOnItsLine ==
  Returned("extract_account_holder")
    => /\ HasHolderLine(call.arg) => call.ret.val = Some(NameOnLine(call.arg))
       /\ call.ret.val # None
            => /\ "\n" \notin SeqRange(call.ret.val[1])
               /\ call.ret.val[1] # <<>>

KnownBanks ==
  <<Chars("CHASE"), Chars("Wells Fargo"), Chars("Bank of America"), Chars("Citibank"),
    Chars("Capital One"), Chars("TD Bank"), Chars("PNC")>>

AllBlank(text) == SeqRange(text) \subseteq Whitespace

\* the first non-empty line of a text that is not all whitespace, from its
\* first non-blank character to its last
LineStart(text) == Least({i \in 1..Len(text) : text[i] \notin Whitespace})

LineEnd(text) == CHOOSE j \in LineStart(text)..Len(text) :
  /\ \A k \in LineStart(text)..j : text[k] # "\n"
  /\ j < Len(text) => text[j + 1] = "\n"

FirstNonEmptyLine(text) == RStrip(SubSeq(text, LineStart(text), LineEnd(text)))

\* the known bank names the line contains, in any letter case
BanksIn(line) ==
  {k \in 1..Len(KnownBanks) : \E i \in 0..Len(line) : LabelAt(line, i, KnownBanks[k])}

\* the characters of the line before its first whitespace
LeadingToken(line) ==
  SubSeq(line, 1, Least({i \in 1..(Len(line) + 1) :
                           i = Len(line) + 1 \/ line[i] \in Whitespace}) - 1)

\* C12: the bank name is decided by the first non-empty line alone: a known
\* bank name the line contains, in any letter case, is returned upper-cased
\* and takes precedence over the first token; otherwise the first
\* whitespace-delimited token of the line is returned; the field is absent
\* exactly when the text is empty or all whitespace, and is never empty.
C12_BankNameFromFirstLine ==
  Returned("extract_bank_name")
    => /\ (call.ret.val = None) <=> AllBlank(call.arg)
       /\ call.ret.val # None => call.ret.val[1] # <<>>
       /\ ~AllBlank(call.arg) =>
            LET line == FirstNonEmptyLine(call.arg)
            IN IF BanksIn(line) # {}
               THEN call.ret.val \in {Some(Upper(KnownBanks[k])) : k \in BanksIn(line)}
               ELSE call.ret.val = Some(LeadingToken(line))

C12_KnownBankAfterFirstToken ==
  /\ Returned("extract_bank_name")
  /\ call.arg = Chars("\n") \o Chars("my td bank x")
  /\ call.ret.val = Some(Chars("TD BANK"))

SummaryLabels ==
  [opening_balance |-> Chars("Opening Balance"),
   closing_balance |-> Chars("Closing Balance"),
   total_credits |-> Chars("Total Credits"),
   total_debits |-> Chars("Total Debits")]

LabelOffsets(text, label) == {i \in 0..Len(text) : LabelAt(text, i, label)}

\* the text after the first occurrence of the label
AfterLabel(text, label) ==
  SubSeq(text, Least(LabelOffsets(text, label)) + Len(label) + 1, Len(text))

\* the text after the label leads to an amount: a number that starts with a
\* digit, written with or without a '$' right before it, no other '$'
\* standing between the label and the amount
LeadsToAmount(rest) ==
  /\ HasDigit(rest)
  /\ rest[RunStart(rest)] \in Digits
  /\ "$" \notin SeqRange(SubSeq(rest, 1, RunStart(rest) - 2))

AmountAfter(rest) == FloatVal(RemoveChar(FirstRun(rest), ","))

\* C13: a summary field whose label is followed, after characters other
\* than '$', by an amount with or without a leading '$' is that whole amount
\* with its thousands separators removed; a field whose label does not occur
\* is absent; each field depends on the text after its own label only.
C13_SummaryFieldIsWholeAmount ==
  Returned("extract_summary")
    => \A key \in DOMAIN SummaryLabels :
         IF LabelOffsets(call.arg, SummaryLabels[key]) = {}
         THEN call.ret.val[key] = None
         ELSE LeadsToAmount(AfterLabel(call.arg, SummaryLabels[key]))
                => call.ret.val[key]
                     = Some(AmountAfter(AfterLabel(call.arg, SummaryLabels[key])))

FieldPriority == <<"date", "description", "amount", "balance">>

\* the logical field of a header cell: the first word in priority order that
\* the lower-cased cell contains, "none" when it contains none of them
PriorityField(cell) ==
  LET found == {k \in 1..4 : Contains(Lower(StrOr(cell)), Chars(FieldPriority[k]))}
  IN IF found = {} THEN "none" ELSE FieldPriority[Least(found)]

FieldColumns(header, f) == {i \in 1..Len(header) : PriorityField(header[i]) = f}

\* the fields of a transaction that come from the cell of one column
FromCell(trans, f, cell) ==
  CASE f = "date" -> trans.date = Some(normalize_date(StrOr(cell)))
    [] f = "description" -> trans.description = Some(Strip(StrOr(cell)))
    [] f = "amount" -> /\ parse_amount(StrOr(cell)).exc = "none"
                       /\ trans.amount = parse_amount(StrOr(cell)).val[1]
                       /\ trans.type = parse_amount(StrOr(cell)).val[2]
    [] f = "balance" -> /\ parse_balance(StrOr(cell)).exc = "none"
                        /\ trans.balance = parse_balance(StrOr(cell)).val

FieldAbsent(trans, f) ==
  CASE f = "date" -> trans.date = None
    [] f = "description" -> trans.description = None
    [] f = "amount" -> trans.amount = None /\ trans.type = None
    [] f = "balance" -> trans.balance = None

\* the transaction is the reading of the row under the header
FromRow(trans, header, row) ==
  \A k \in 1..4 :
    LET f == FieldPriority[k]
    IN IF FieldColumns(header, f) = {}
       THEN FieldAbsent(trans, f)
       ELSE \E i \in FieldColumns(header, f) :
              i <= Len(row) /\ FromCell(trans, f, row[i])

\* C14: a header cell stands for at most one logical field, the first of
\* date, description, amount, balance that it contains; a field without a
\* header cell is absent in every transaction (amount and kind together),
\* and a field with a column is read from its own column in every retained
\* row.
C14_FieldsFollowHeaderColumns ==
  (ReturnedOk("parse_transaction_table") /\ Len(call.arg) >= 2)
    => \A k \in 1..Len(call.ret.val) :
         \E j \in 2..Len(call.arg) : FromRow(call.ret.val[k], call.arg[1], call.arg[j])

C14_CellWithTwoWordsIsDate ==
  /\ ReturnedOk("parse_transaction_table")
  /\ call.arg = << <<Str("Value date balance"), None, Str("DATE")>>, FullRow>>
  /\ Len(call.ret.val) = 1
  /\ call.ret.val[1].balance = None
  /\ call.ret.val[1].date = Some(Chars("-$5"))

\* a row that may be left out: a field of date and description that has a
\* column reads as empty in one of its columns, or has no column
Droppable(header, row) ==
  \A f \in {"date", "description"} :
    \/ FieldColumns(header, f) = {}
    \/ \E i \in FieldColumns(header, f) :
         /\ i <= Len(row)
         /\ IF f = "date" THEN normalize_date(StrOr(row[i])) = <<>>
            ELSE Strip(StrOr(row[i])) = <<>>

\* the rows of the table, by position, that the transactions come from: one
\* row for each transaction, later transactions from later rows, the header
\* row excluded
RowsOf(table, trans) ==
  {rows \in [1..Len(trans) -> 2..Len(table)] :
     /\ \A k \in 1..(Len(trans) - 1) : rows[k] < rows[k + 1]
     /\ \A k \in 1..Len(trans) : FromRow(trans[k], table[1], table[rows[k]])
     /\ \A j \in 2..Len(table) :
          (\A k \in 1..Len(trans) : rows[k] # j)
            => (SkipRow(table[j]) \/ Droppable(table[1], table[j]))}

\* C15: the transactions correspond one to one, in the same relative order,
\* to the retained data rows of the table they were parsed from; the header
\* row is never a transaction, no row gives two transactions, and there are
\* no more transactions than data rows.
C15_TransactionsInRowOrder ==
  (ReturnedOk("parse_transaction_table") /\ Len(call.arg) >= 2)
    => /\ RowsOf(call.arg, call.ret.val) # {}
       /\ Len(call.ret.val) <= Len(call.arg) - 1

C15_TwoRowsInDocumentOrder ==
  /\ ReturnedOk("parse_transaction_table")
  /\ Len(call.arg) = 3
  /\ call.arg[1] = FullHeader
  /\ call.arg[3] = FullRow
  /\ Len(call.ret.val) = 2
  /\ call.ret.val[1].date = Some(Chars("2024-01-31"))
  /\ call.ret.val[2].date = Some(Chars("2024-01-05"))

SaysIncorrectPassword(error) == Contains(Lower(Chars(error)), Chars("incorrect password"))

\* C16: decrypt_pdf never raises; for an encrypted document that rejects the
\* password the result is a failure saying that the password is incorrect,
\* with is_encrypted true; for input that is not a valid document it is a
\* failure with is_encrypted false; a success result is returned only for a
\* document that was not encrypted or that accepted the password.
C16_DecryptReportsFailures ==
  Returned("decrypt_pdf")
    => /\ call.ret.exc = "none"
       /\ (job # None /\ job[1].verdict = "rejected")
            => /\ ~call.ret.val.success
               /\ SaysIncorrectPassword(call.ret.val.error)
               /\ call.ret.val.is_encrypted
       /\ call.arg.kind \in {"not_base64", "garbage"}
            => ~call.ret.val.success /\ ~call.ret.val.is_encrypted
       /\ call.ret.val.success
            => \/ call.arg.kind = "plain"
               \/ call.arg.kind = "encrypted" /\ call.arg.accepts

C16_PasswordRejected ==
  /\ Returned("decrypt_pdf")
  /\ call.arg.kind = "encrypted"
  /\ ~call.arg.accepts
  /\ job # None
  /\ job[1].verdict = "rejected"
  /\ call.ret.val = Failure("Incorrect password. Please check and try again.", TRUE)

\* what a page contributes: its position counted from 1, its text (the empty
\* string when extraction fails or gives nothing) and its grids in the order
\* found, every cell a trimmed string
PageEntry(page, n) ==
  [pageNumber |-> n,
   text |-> IF page.fails \/ page.text = None THEN <<>> ELSE page.text[1],
   tables |-> CleanTables(page.tables)]

Trimmed(tables) ==
  \A t \in 1..Len(tables) : \A r \in 1..Len(tables[t]) : \A c \in 1..Len(tables[t][r]) :
    Strip(tables[t][r][c]) = tables[t][r][c]

\* C17: extract_pdf_content returns the pages in document order, numbered
\* from 1, pageCount being their number, the tables of a page in the order
\* found with every cell a trimmed string; a page whose text extraction
\* fails or gives nothing contributes the empty string and does not make
\* the call fail.  (The document is one that was written to disk and opened.)
C17_PagesInOrderDespiteFailedText ==
  (Returned("extract_pdf_content") /\ call.arg.kind = "plain" /\ job # None)
    => /\ call.ret.val.success
       /\ call.ret.val.pageCount = Len(call.ret.val.pages)
       /\ call.ret.val.pages
            = [n \in 1..Len(call.arg.pages) |-> PageEntry(call.arg.pages[n], n)]
       /\ \A n \in 1..Len(call.ret.val.pages) : Trimmed(call.ret.val.pages[n].tables)

UserTables == {"GroupedStatement", "StatementGroup", "Transaction", "BankStatement"}

\* a database file after the purge: the same tables, the user tables empty,
\* every other table as it was; no file where there was none
Purged(file) ==
  IF file = None THEN None
  ELSE Some([t \in DOMAIN file[1] |-> IF t \in UserTables THEN 0 ELSE file[1][t]])

\* C18: after purge_user_data has run to completion, in every database file
\* that exists the tables GroupedStatement, StatementGroup, Transaction and
\* BankStatement have no rows and every other table is unchanged; a path
\* without a file is skipped and gets no file, the other path being purged
\* all the same; when a delete fails before the commit, no deletion of that
\* database is committed.
C18_PurgeEmptiesUserTablesOnly ==
  /\ (Returned("purge_user_data") /\ call.ret.exc = "none")
       => \A path \in DOMAIN db : db[path] = Purged(call.arg[path])
  /\ (Returned("purge_user_data") /\ call.ret.exc # "none")
       => db[DbPaths[job[1].path]] = call.arg[DbPaths[job[1].path]]

C18_SecondPathPurgedAloneFirstMissing ==
  /\ Returned("purge_user_data")
  /\ call.ret.exc = "none"
  /\ call.arg[DbPaths[1]] = None
  /\ db[DbPaths[1]] = None
  /\ call.arg[DbPaths[2]] = Some([t \in {"Transaction", "BankTemplate"} |-> 1])
  /\ db[DbPaths[2]] = Some([t \in {"Transaction", "BankTemplate"} |->
                              IF t = "Transaction" THEN 0 ELSE 1])

\* C19: every temporary file that decrypt_pdf creates is deleted by the time
\* it returns, on every path (success, rejected password, an exception while
\* the document is read or written), as check_if_encrypted and
\* extract_pdf_content do for theirs: no call leaves a temporary copy of a
\* statement on disk.  (Stated for the calls whose temporary file was written
\* in full.)
C19_NoTemporaryFileLeft ==
  (pc = "returned"
     /\ call.fn \in {"decrypt_pdf", "check_if_encrypted", "extract_pdf_content"}
     /\ job # None)
    => tmp = {}

====
